---- MODULE Spec2Model ----
(***************************************************************************)
(* A model of tooling/cli/src/mobile/ios/mod.rs: the iOS target resolver   *)
(* (device_prompt and its two helpers), the signing-mode decision          *)
(* (init_config), the property-list merge (merge_plist) and the            *)
(* configuration synthesis (get_config).                                   *)
(*                                                                         *)
(* Every behaviour is one call of one of these operations.  Init draws the *)
(* operation and the arguments of the call; the actions run the call, and  *)
(* draw what the collaborators (device enumeration, prompt, simulator      *)
(* start, file system) answer.                                             *)
(***************************************************************************)
EXTENDS Integers, Sequences, FiniteSets, TLC

\* Bounds of the model.
MaxDevices == 2
MaxSimulators == 2
MaxScore == 2

\* The threshold imported from the parent module (mod.rs line 28), whose
\* value is set outside this file: 0 is taken here.  A score must be strictly
\* greater than it; scores are signed (isize) and are drawn on both sides.
MIN_DEVICE_MATCH_SCORE == 0

\* Option<T> and Result<T, E> with an explicit absent value, so that every
\* value of a variable has the same shape.
None(absent) == [some |-> FALSE, val |-> absent]
Some(v) == [some |-> TRUE, val |-> v]
Ok(v) == [ok |-> TRUE, val |-> v, err |-> "none"]
Err(absent, e) == [ok |-> FALSE, val |-> absent, err |-> e]

Range(s) == {s[k] : k \in DOMAIN s}
SeqsUpTo(S, n) == UNION {[1..k -> S] : k \in 0..n}

----------------------------------------------------------------------------
\* Device / simulator resolver (mod.rs lines 194-289)

Names == {"iPhone", "iPad"}
Scores == (0 - 1)..MaxScore

\* A physical device and a simulator as the enumeration returns them, and
\* the Device that device_prompt returns (simulator.into() for a simulator).
NoCandidate == [kind |-> "none", index |-> 0, name |-> "", running |-> FALSE]
DeviceAt(list, k) ==
    [kind |-> "device", index |-> k, name |-> list[k], running |-> FALSE]
SimulatorAt(list, k) ==
    [kind |-> "simulator", index |-> k, name |-> list[k].name,
     running |-> list[k].running]

NoList == << >>
ErrList(e) == Err(NoList, e)
ErrCandidate(e) == Err(NoCandidate, e)
NoIndex == 0 - 1
NotPrompted == [asked |-> FALSE, ok |-> TRUE, index |-> NoIndex]
PromptOk(k) == [asked |-> TRUE, ok |-> TRUE, index |-> k]
PromptErr == [asked |-> TRUE, ok |-> FALSE, index |-> NoIndex]

VARIABLES op, pc, target, best_match, device_list, simulator_list,
          device_choice, simulator_choice, connected, simulator, started,
          device_result, log

VARIABLES keychain, provisioning_profile, init_result

signingVars == <<keychain, provisioning_profile, init_result>>

VARIABLES src, dest_before, dest_file, write_outcome, merge_result, plist_log

plistVars == <<src, dest_before, dest_file, write_outcome, merge_result,
               plist_log>>

VARIABLES env_team, config_team, team_query, config_frameworks, cli_features,
          features, raw_config, metadata, warning, exported

configVars == <<env_team, config_team, team_query, config_frameworks,
                cli_features, features, raw_config, metadata, warning,
                exported>>

otherVars == <<signingVars, plistVars, configVars>>

resolverVars == <<target, best_match, device_list, simulator_list,
                  device_choice, simulator_choice, connected, simulator,
                  started, device_result, log>>

\* best_match(t, name).map_or(0, |m| m.score()) : no match scores 0.
ScoreOf(bm, name) == IF bm[name].some THEN bm[name].val ELSE 0

\* A plausible slip: the .rev() is missing.
ScoredForward(names, bm) ==
    [k \in 1..Len(names) |-> [index |-> k, score |-> ScoreOf(bm, names[k])]]

\* The (candidate, score) pairs in the order list.into_iter().rev() yields.
ScoredRev(names, bm) ==
    [k \in 1..Len(names) |->
        [index |-> Len(names) + 1 - k,
         score |-> ScoreOf(bm, names[Len(names) + 1 - k])]]

\* Iterator::max_by_key: a fold that keeps the later element when two keys
\* are equal, so the last maximum in iteration order is returned.
RECURSIVE MaxByKeyFrom(_, _, _)
MaxByKeyFrom(it, best, k) ==
    IF k > Len(it) THEN best
    ELSE MaxByKeyFrom(it, IF it[k].score >= best.score THEN it[k] ELSE best,
                      k + 1)

\* A plausible slip: keep the earlier element on equal keys.
RECURSIVE MaxByKeyFirstFrom(_, _, _)
MaxByKeyFirstFrom(it, best, k) ==
    IF k > Len(it) THEN best
    ELSE MaxByKeyFirstFrom(it, IF it[k].score > best.score THEN it[k] ELSE best,
                           k + 1)

MaxByKeyKeepFirst(it) == MaxByKeyFirstFrom(it, it[1], 2)

MaxByKey(it) == MaxByKeyFrom(it, it[1], 2)

\* d.name() of every candidate of a list, in enumeration order.
DeviceNames(list) == list
SimulatorNames(list) == [k \in 1..Len(list) |-> list[k].name]

\* A plausible slip: score >= MIN_DEVICE_MATCH_SCORE.
ClearsThresholdOrEqual(score) == score >= MIN_DEVICE_MATCH_SCORE

ClearsThreshold(score) == score > MIN_DEVICE_MATCH_SCORE

\* A plausible slip: the prompt is shown for a single candidate as well.
PromptsForAnyCandidate(list, t) == list.ok /\ ~t.some /\ Len(list.val) >= 1

\* Whether the code invokes prompt::list: no hint and more than one candidate.
PromptsFor(list, t) == list.ok /\ ~t.some /\ Len(list.val) > 1

\* connected_device_prompt, given what list_devices and prompt::list answer.
ConnectedDevicePrompt(dl, t, bm, choice) ==
    IF ~dl.ok THEN ErrCandidate("Failed to detect connected iOS devices")
    ELSE IF Len(dl.val) # 0
    THEN IF t.some
         THEN LET best == MaxByKey(ScoredRev(DeviceNames(dl.val), bm))
              IN  IF ClearsThreshold(best.score)
                  THEN Ok(DeviceAt(dl.val, best.index))
                  ELSE ErrCandidate("Could not find an iOS device matching")
         ELSE IF Len(dl.val) > 1
              THEN IF choice.ok
                   THEN Ok(DeviceAt(dl.val, choice.index + 1))
                   ELSE ErrCandidate("Failed to prompt for iOS device")
              ELSE Ok(DeviceAt(dl.val, 1))
    ELSE ErrCandidate("No connected iOS devices detected")

\* A plausible slip: simulator_prompt accepts a score equal to the threshold.
SimulatorPromptOrEqual(sl, t, bm, choice) ==
    IF ~sl.ok
    THEN ErrCandidate("Failed to detect connected iOS Simulator devices")
    ELSE IF Len(sl.val) # 0
    THEN IF t.some
         THEN LET best == MaxByKey(ScoredRev(SimulatorNames(sl.val), bm))
              IN  IF ClearsThresholdOrEqual(best.score)
                  THEN Ok(SimulatorAt(sl.val, best.index))
                  ELSE ErrCandidate("Could not find an iOS Simulator matching")
         ELSE IF Len(sl.val) > 1
              THEN IF choice.ok
                   THEN Ok(SimulatorAt(sl.val, choice.index + 1))
                   ELSE ErrCandidate("Failed to prompt for iOS Simulator device")
              ELSE Ok(SimulatorAt(sl.val, 1))
    ELSE ErrCandidate("No available iOS Simulator detected")

\* A plausible slip: the error of the empty list is copied from
\* connected_device_prompt.
SimulatorPromptCopiedError(sl, t, bm, choice) ==
    IF ~sl.ok
    THEN ErrCandidate("Failed to detect connected iOS Simulator devices")
    ELSE IF Len(sl.val) # 0
    THEN IF t.some
         THEN LET best == MaxByKey(ScoredRev(SimulatorNames(sl.val), bm))
              IN  IF ClearsThreshold(best.score)
                  THEN Ok(SimulatorAt(sl.val, best.index))
                  ELSE ErrCandidate("Could not find an iOS Simulator matching")
         ELSE IF Len(sl.val) > 1
              THEN IF choice.ok
                   THEN Ok(SimulatorAt(sl.val, choice.index + 1))
                   ELSE ErrCandidate("Failed to prompt for iOS Simulator device")
              ELSE Ok(SimulatorAt(sl.val, 1))
    ELSE ErrCandidate("No connected iOS devices detected")

\* simulator_prompt, given what list_simulators and prompt::list answer.
SimulatorPrompt(sl, t, bm, choice) ==
    IF ~sl.ok
    THEN ErrCandidate("Failed to detect connected iOS Simulator devices")
    ELSE IF Len(sl.val) # 0
    THEN IF t.some
         THEN LET best == MaxByKey(ScoredRev(SimulatorNames(sl.val), bm))
              IN  IF ClearsThreshold(best.score)
                  THEN Ok(SimulatorAt(sl.val, best.index))
                  ELSE ErrCandidate("Could not find an iOS Simulator matching")
         ELSE IF Len(sl.val) > 1
              THEN IF choice.ok
                   THEN Ok(SimulatorAt(sl.val, choice.index + 1))
                   ELSE ErrCandidate("Failed to prompt for iOS Simulator device")
              ELSE Ok(SimulatorAt(sl.val, 1))
    ELSE ErrCandidate("No available iOS Simulator detected")

\* A plausible slip: `.or(simulator_prompt(..))`, evaluated whatever the
\* result of connected_device_prompt.
FallsBackAlways(r) == TRUE

\* A plausible slip: only an empty enumeration falls back to the simulators.
FallsBackOnlyWhenEmpty(r) ==
    ~r.ok /\ r.err = "No connected iOS devices detected"

\* device_prompt line 281: `if let Ok(device) = ... else`: every error of
\* connected_device_prompt takes the simulator branch.
FallsBackToSimulator(r) == ~r.ok

\* A plausible slip: a simulator that is already running is not started.
StartsOnlyIfNotRunning(sim) == ~sim.running

\* device_prompt lines 285-286: the chosen simulator is started whatever its
\* state; nothing is tested before start_detached.
StartsSimulator(sim) == TRUE

\* What list_devices / list_simulators may answer.
DeviceEnumerations ==
    {ErrList("list_devices failed")} \cup {Ok(l) : l \in SeqsUpTo(Names, MaxDevices)}
SimulatorRecords == [name : Names, running : BOOLEAN]
SimulatorEnumerations ==
    {ErrList("list_simulators failed")}
        \cup {Ok(l) : l \in SeqsUpTo(SimulatorRecords, MaxSimulators)}

\* What prompt::list may answer for a list: an index into it, or a failure.
PromptAnswers(list, t) ==
    IF PromptsFor(list, t)
    THEN {PromptErr} \cup {PromptOk(k) : k \in 0..(Len(list.val) - 1)}
    ELSE {NotPrompted}

\* The hints of a call: the exact name of a candidate, or a fragment.
Hints == Names \cup {"iP"}

NoScores == [n \in Names |-> None(0)]
Matches == [Names -> {None(0)} \cup {Some(s) : s \in Scores}]

ResolverFresh ==
    /\ device_list = ErrList("not enumerated")
    /\ simulator_list = ErrList("not enumerated")
    /\ device_choice = NotPrompted
    /\ simulator_choice = NotPrompted
    /\ connected = ErrCandidate("not called")
    /\ simulator = ErrCandidate("not called")
    /\ started = FALSE
    /\ device_result = ErrCandidate("not returned")
    /\ log = << >>

\* A call device_prompt(env, target): the hint and, for that hint, what
\* best_match answers for each candidate name.
InitDevicePrompt ==
    /\ \/ target = None("") /\ best_match = NoScores
       \/ target \in {Some(h) : h \in Hints} /\ best_match \in Matches
    /\ ResolverFresh

ResolverIdle == target = None("") /\ best_match = NoScores /\ ResolverFresh

\* device_prompt line 281: the call of connected_device_prompt and the
\* branch on its result.
CallConnectedDevicePrompt ==
    /\ op = "device_prompt" /\ pc = "connected_device_prompt"
    /\ \E dl \in DeviceEnumerations :
         \E choice \in PromptAnswers(dl, target) :
            LET r == ConnectedDevicePrompt(dl, target, best_match, choice)
            IN  /\ device_list' = dl
                /\ device_choice' = choice
                /\ connected' = r
                /\ log' = log \o <<"list_devices">>
                            \o (IF choice.asked THEN <<"prompt_device">> ELSE << >>)
                /\ IF FallsBackToSimulator(r)
                   THEN /\ pc' = "simulator_prompt"
                        /\ device_result' = device_result
                   ELSE /\ pc' = "done"
                        /\ device_result' = r
    /\ UNCHANGED <<op, target, best_match, simulator_list, simulator_choice,
                   simulator, started, otherVars>>

\* device_prompt line 284: simulator_prompt(env, target)?
CallSimulatorPrompt ==
    /\ op = "device_prompt" /\ pc = "simulator_prompt"
    /\ \E sl \in SimulatorEnumerations :
         \E choice \in PromptAnswers(sl, target) :
            LET r == SimulatorPrompt(sl, target, best_match, choice)
            IN  /\ simulator_list' = sl
                /\ simulator_choice' = choice
                /\ simulator' = r
                /\ log' = log \o <<"list_simulators">>
                            \o (IF choice.asked THEN <<"prompt_simulator">> ELSE << >>)
                /\ IF r.ok /\ StartsSimulator(r.val)
                   THEN /\ pc' = "start_detached"
                        /\ device_result' = device_result
                   ELSE /\ pc' = "done"
                        /\ device_result' = r
    /\ UNCHANGED <<op, target, best_match, device_list, device_choice,
                   connected, started, otherVars>>

\* device_prompt lines 285-287: simulator.start_detached(env)? and the
\* return of the simulator as a Device.
StartDetached ==
    /\ op = "device_prompt" /\ pc = "start_detached"
    /\ \E ok \in BOOLEAN :
         /\ started' = ok
         /\ device_result' = IF ok THEN simulator
                             ELSE ErrCandidate("start_detached failed")
    /\ log' = log \o <<"start_detached">>
    /\ pc' = "done"
    /\ UNCHANGED <<op, target, best_match, device_list, simulator_list,
                   device_choice, simulator_choice, connected, simulator,
                   otherVars>>

----------------------------------------------------------------------------
\* Signing resolver: init_config (mod.rs lines 379-393)

Identities == {"Apple Development", "Apple Distribution"}
TeamIds == {"TEAM1", "TEAM2"}
Uuids == {"UUID1", "UUID2"}

NoString == ""
NoTeam == None(NoString)

\* A Keychain: signing_identity() is a String, team_id() an Option.
Keychains == [signing_identity : Identities,
              team_id : {NoTeam} \cup {Some(t) : t \in TeamIds}]
NoKeychain == [signing_identity |-> NoString, team_id |-> NoTeam]

\* A ProvisioningProfile: uuid() is a Result.
ProvisioningProfiles ==
    [uuid : {Err(NoString, "uuid unreadable")} \cup {Ok(u) : u \in Uuids}]
NoProfile == [uuid |-> Err(NoString, "no profile")]

\* Result::ok(): Ok(v) becomes Some(v), an error becomes None.
ResultOk(r) == IF r.ok THEN Some(r.val) ELSE None(NoString)

\* A plausible slip: Manual as soon as either input is present.
CodeSignStyleEither(k, p) ==
    IF k.some \/ p.some THEN "Manual" ELSE "Automatic"

\* lines 384-388
CodeSignStyle(k, p) ==
    IF k.some /\ p.some THEN "Manual" ELSE "Automatic"

\* A plausible slip: the team id is taken to be always present.
TeamIdUnwrapped(k) ==
    IF k.some THEN Some(k.val.team_id.val) ELSE None(NoString)

\* line 390: keychain.and_then(|k| k.team_id().map(ToString::to_string))
TeamId(k) == IF k.some THEN k.val.team_id ELSE None(NoString)

\* line 389: keychain.map(|k| k.signing_identity())
CodeSignIdentity(k) ==
    IF k.some THEN Some(k.val.signing_identity) ELSE None(NoString)

\* A plausible slip: the UUID is filled in only for Manual signing.
ProvisioningProfileUuidIfManual(k, p) ==
    IF k.some /\ p.some THEN ResultOk(p.val.uuid) ELSE None(NoString)

\* line 391: provisioning_profile.and_then(|p| p.uuid().ok()); the keychain
\* is not consulted.
ProvisioningProfileUuid(k, p) ==
    IF p.some THEN ResultOk(p.val.uuid) ELSE None(NoString)

\* init_config always returns Ok(IosInitConfig { .. }).
InitConfig(k, p) ==
    [code_sign_style |-> CodeSignStyle(k, p),
     code_sign_identity |-> CodeSignIdentity(k),
     team_id |-> TeamId(k),
     provisioning_profile_uuid |-> ProvisioningProfileUuid(k, p)]

NoInitConfig ==
    [code_sign_style |-> "none",
     code_sign_identity |-> None(NoString),
     team_id |-> None(NoString),
     provisioning_profile_uuid |-> None(NoString)]

InitInitConfig ==
    /\ keychain \in {None(NoKeychain)} \cup {Some(k) : k \in Keychains}
    /\ provisioning_profile
          \in {None(NoProfile)} \cup {Some(p) : p \in ProvisioningProfiles}
    /\ init_result = NoInitConfig

SigningIdle ==
    /\ keychain = None(NoKeychain)
    /\ provisioning_profile = None(NoProfile)
    /\ init_result = NoInitConfig

CallInitConfig ==
    /\ op = "init_config" /\ pc = "init_config"
    /\ init_result' = InitConfig(keychain, provisioning_profile)
    /\ pc' = "done"
    /\ UNCHANGED <<op, keychain, provisioning_profile, resolverVars, plistVars,
                   configVars>>

----------------------------------------------------------------------------
\* Plist merger: merge_plist (mod.rs lines 311-356)

MaxSources == 2

Keys == {"CFBundleName", "UIBackgroundModes"}
Absent == "absent"
SourceVals == {"A", "B"}
DestVals == {"D"}

\* A plist::Value: a dictionary (top-level key -> value, whole values), or a
\* value of another kind, for which as_dictionary_mut / into_dictionary is None.
Dict(f) == [dict |-> TRUE, at |-> f]
NoEntries == [k \in Keys |-> Absent]
NotADict == [dict |-> FALSE, at |-> NoEntries]
SourceValues == {NotADict} \cup {Dict(f) : f \in [Keys -> SourceVals \cup {Absent}]}
DestValues == {NotADict} \cup {Dict(f) : f \in [Keys -> DestVals \cup {Absent}]}

\* A PlistKind: a path, whose file loads or does not, or an in-memory value.
PlistKinds ==
    {[kind |-> "Path", loads |-> FALSE, value |-> NotADict]}
        \cup [kind : {"Path", "Plist"}, loads : {TRUE}, value : SourceValues]

\* The destination file: unreadable (missing or invalid), or a document.
Files == {[readable |-> FALSE, value |-> NotADict]}
            \cup [readable : {TRUE}, value : DestValues]

\* What to_file_xml may do: write the document, fail before touching the
\* file, or fail after truncating it.
WriteOutcomes == {"written", "failed", "failed_truncated"}

Event(e, k) == [ev |-> e, at |-> k]

\* lines 343-345: insert every pair of the source dictionary.
InsertAll(acc, dict) ==
    [k \in Keys |-> IF dict[k] # Absent THEN dict[k] ELSE acc[k]]

\* A plausible slip: keep the value already present (first writer wins).
MergeIntoKeepExisting(plist, src_plist) ==
    IF plist.dict /\ src_plist.dict
    THEN Dict([k \in Keys |-> IF plist.at[k] # Absent THEN plist.at[k]
                              ELSE src_plist.at[k]])
    ELSE plist

\* lines 340-347: the merge of one loaded source into the accumulator;
\* nothing is merged unless both are dictionaries.
MergeInto(plist, src_plist) ==
    IF plist.dict /\ src_plist.dict
    THEN Dict(InsertAll(plist.at, src_plist.at))
    ELSE plist

\* A plausible slip: an unreadable source is propagated with `?`.
SourceErrorIsFatalYes(plist_kind) == ~plist_kind.loads

\* line 335: `if let Ok(src_plist) = plist`: a source that does not load is
\* skipped, it is never an error.
SourceErrorIsFatal(plist_kind) == FALSE

\* A plausible slip: the unreadable destination is replaced by an empty
\* dictionary instead of being propagated.
LoadDestOrDefault(file) ==
    IF file.readable THEN Ok(file.value) ELSE Ok(Dict(NoEntries))

\* line 337: plist::Value::from_file(dest)?
LoadDest(file) ==
    IF file.readable THEN Ok(file.value)
    ELSE Err(NotADict, "destination unreadable")

\* A plausible slip: the destination is loaded before the source is looked at.
LoadsDestEagerly(plist_kind, dest_plist) == ~dest_plist.some

\* lines 335-336: the destination is loaded lazily, for the first source
\* that loads.
LoadsDest(plist_kind, dest_plist) == plist_kind.loads /\ ~dest_plist.some

\* A plausible slip: the destination is written back inside the loop, after
\* every source that was merged.
RECURSIVE MergeLoopWriteThrough(_, _, _, _, _)
MergeLoopWriteThrough(sources, k, dest_plist, file, events) ==
    IF k > Len(sources)
    THEN [failed |-> FALSE, err |-> "none", dest_plist |-> dest_plist,
          events |-> events]
    ELSE LET plist_kind == sources[k]
             loaded == events \o <<Event("load_source", k)>>
             reads == LoadsDest(plist_kind, dest_plist)
             d == LoadDest(file)
             after == IF reads THEN loaded \o <<Event("read_dest", k)>>
                      ELSE loaded
             plist == IF reads THEN Some(d.val) ELSE dest_plist
         IN  IF reads /\ ~d.ok
             THEN [failed |-> TRUE, err |-> d.err,
                   dest_plist |-> dest_plist, events |-> after]
             ELSE MergeLoopWriteThrough(sources, k + 1,
                            IF plist_kind.loads
                            THEN Some(MergeInto(plist.val, plist_kind.value))
                            ELSE plist,
                            file,
                            IF plist_kind.loads
                            THEN after \o <<Event("write_dest", k)>>
                            ELSE after)

\* The state of the loop of lines 330-349 after the sources k..Len(sources):
\* the accumulator dest_plist, whether the call has returned an error, and
\* the file accesses made so far.
RECURSIVE MergeLoop(_, _, _, _, _)
MergeLoop(sources, k, dest_plist, file, events) ==
    IF k > Len(sources)
    THEN [failed |-> FALSE, err |-> "none", dest_plist |-> dest_plist,
          events |-> events]
    ELSE LET plist_kind == sources[k]
             loaded == events \o <<Event("load_source", k)>>
             reads == LoadsDest(plist_kind, dest_plist)
             d == LoadDest(file)
             after == IF reads THEN loaded \o <<Event("read_dest", k)>>
                      ELSE loaded
             plist == IF reads THEN Some(d.val) ELSE dest_plist
         IN  IF SourceErrorIsFatal(plist_kind)
             THEN [failed |-> TRUE, err |-> "source unreadable",
                   dest_plist |-> dest_plist, events |-> loaded]
             ELSE IF reads /\ ~d.ok
             THEN [failed |-> TRUE, err |-> d.err,
                   dest_plist |-> dest_plist, events |-> after]
             ELSE MergeLoop(sources, k + 1,
                            IF plist_kind.loads
                            THEN Some(MergeInto(plist.val, plist_kind.value))
                            ELSE plist,
                            file, after)

\* merge_plist(src, dest) on a destination file, given what to_file_xml does:
\* the result, the destination file afterwards and the file accesses.
MergePlist(sources, file, outcome) ==
    LET loop == MergeLoop(sources, 1, None(NotADict), file, << >>)
    IN  IF loop.failed
        THEN [result |-> Err("unit", loop.err), file |-> file,
              events |-> loop.events]
        ELSE IF loop.dest_plist.some
        THEN [result |-> IF outcome = "written" THEN Ok("unit")
                         ELSE Err("unit", "write failed"),
              file |-> CASE outcome = "written" ->
                              [readable |-> TRUE, value |-> loop.dest_plist.val]
                         [] outcome = "failed" -> file
                         [] OTHER -> [readable |-> FALSE, value |-> NotADict],
              events |-> loop.events
                            \o <<Event("write_dest", Len(sources) + 1)>>]
        ELSE [result |-> Ok("unit"), file |-> file, events |-> loop.events]

NotReturned == Err("unit", "not returned")

InitMergePlist ==
    /\ src \in SeqsUpTo(PlistKinds, MaxSources)
    /\ dest_before \in Files
    /\ dest_file = dest_before
    /\ write_outcome = "none"
    /\ merge_result = NotReturned
    /\ plist_log = << >>

PlistIdle ==
    /\ src = << >>
    /\ dest_before = [readable |-> FALSE, value |-> NotADict]
    /\ dest_file = dest_before
    /\ write_outcome = "none"
    /\ merge_result = NotReturned
    /\ plist_log = << >>

Writes(events) == \E k \in 1..Len(events) : events[k].ev = "write_dest"

CallMergePlist ==
    /\ op = "merge_plist" /\ pc = "merge_plist"
    /\ \E outcome \in WriteOutcomes :
         LET r == MergePlist(src, dest_file, outcome)
         IN  /\ outcome # "written" => Writes(r.events)
             /\ write_outcome' = IF Writes(r.events) THEN outcome ELSE "none"
             /\ merge_result' = r.result
             /\ dest_file' = r.file
             /\ plist_log' = r.events
    /\ pc' = "done"
    /\ UNCHANGED <<op, src, dest_before, resolverVars, signingVars,
                   configVars>>

----------------------------------------------------------------------------
\* Configuration synthesizer: get_config (mod.rs lines 104-192)

MaxTeams == 2
MaxFrameworks == 2

EnvTeams == {"ENVTEAM"}
ConfigTeams == {"CFGTEAM"}
\* The signing identities find_development_teams may return.
Teams == {[name |-> "Developer A", id |-> "TEAM1"],
          [name |-> "Developer B", id |-> "TEAM2"]}

\* std::env::var: the value, or an error when the variable is not set or is
\* not valid Unicode.
EnvReads == {Err(NoString, "NotPresent"), Err(NoString, "NotUnicode")}
                \cup {Ok(t) : t \in EnvTeams}
TeamQueries == {ErrList("find_development_teams failed")}
                  \cup {Ok(l) : l \in SeqsUpTo(Teams, MaxTeams)}

\* Result::unwrap_or_default on a Vec: an error becomes the empty list.
UnwrapOrDefault(r) == IF r.ok THEN r.val ELSE << >>

\* A plausible slip: the project configuration is consulted first.
DevelopmentTeamConfigFirst(env_read, config_value, query) ==
    IF config_value.some THEN config_value
    ELSE IF env_read.ok THEN Some(env_read.val)
    ELSE LET teams == UnwrapOrDefault(query)
         IN  IF Len(teams) = 1 THEN Some(teams[1].id) ELSE None(NoString)

\* lines 119-135: env::var(..).ok().or_else(config).or_else(single identity)
DevelopmentTeam(env_read, config_value, query) ==
    IF env_read.ok THEN Some(env_read.val)
    ELSE IF config_value.some THEN config_value
    ELSE LET teams == UnwrapOrDefault(query)
         IN  IF Len(teams) = 1 THEN Some(teams[1].id) ELSE None(NoString)

\* lines 125-133: the warning logged when the identities decide nothing; the
\* closure runs only when neither the variable nor the configuration is set.
TeamWarning(env_read, config_value, query) ==
    IF env_read.ok \/ config_value.some THEN "none"
    ELSE LET teams == UnwrapOrDefault(query)
         IN  IF Len(teams) = 0 THEN "No code signing certificates found"
             ELSE IF Len(teams) = 1 THEN "none"
             ELSE "You must set the code signing certificate development team ID"

\* A path is the sequence of its pieces: names, "/" and ".".
FrameworkRefs ==
    {<<"Foo">>,
     <<"Foo", ".", "framework">>,
     <<"libs", "/", "foo", ".", "a">>,
     <<"libs", "/", "Bar", ".", "framework">>,
     <<".", "hidden">>,
     <<"Foo", ".">>}

LastIndexOf(s, c) ==
    IF \E k \in 1..Len(s) : s[k] = c
    THEN CHOOSE k \in 1..Len(s) : s[k] = c /\ \A j \in (k + 1)..Len(s) : s[j] # c
    ELSE 0

\* Path::file_name for a path that does not end in "/" or "..".
FileName(path) == SubSeq(path, LastIndexOf(path, "/") + 1, Len(path))

\* Path::extension: the part of the file name after its last ".", absent
\* when there is no "." or when the only "." starts the name.
Extension(path) ==
    LET name == FileName(path)
        dot == LastIndexOf(name, ".")
    IN  IF dot <= 1 THEN None(<< >>)
        ELSE Some(SubSeq(name, dot + 1, Len(name)))

\* Path::file_stem: the file name without its extension.
FileStem(path) ==
    LET name == FileName(path)
        dot == LastIndexOf(name, ".")
    IN  IF dot <= 1 THEN name ELSE SubSeq(name, 1, dot - 1)

\* Option::unwrap_or_default on an OsStr: absent becomes empty.
ExtOrEmpty(path) == IF Extension(path).some THEN Extension(path).val ELSE << >>

\* line 169: relativize_path(tauri_dir.join(framework_path), project_dir)
RelativizePath(path) ==
    [relative_to |-> "project_dir", path |-> <<"tauri_dir", "/">> \o path]

\* A plausible slip: a framework bundle is pushed with its extension.
ClassifyKeepsBundleName(framework) ==
    LET ext == ExtOrEmpty(framework)
    IN  IF ext = << >> \/ ext = <<"framework">>
        THEN [list |-> "frameworks", entry |-> framework]
        ELSE [list |-> "vendor_frameworks", entry |-> framework]

\* lines 157-173: where one framework reference goes.
Classify(framework) ==
    LET ext == ExtOrEmpty(framework)
    IN  IF ext = << >> THEN [list |-> "frameworks", entry |-> framework]
        ELSE IF ext = <<"framework">>
        THEN [list |-> "frameworks", entry |-> FileStem(framework)]
        ELSE [list |-> "vendor_frameworks", entry |-> framework]

\* lines 146-174: the loop over the configured references (unwrap_or_default:
\* no list is the empty list), pushing in order.
RECURSIVE LinkFrameworks(_, _)
LinkFrameworks(refs, k) ==
    IF k > Len(refs) THEN << >>
    ELSE (IF Classify(refs[k]).list = "frameworks"
          THEN <<Classify(refs[k]).entry>> ELSE << >>)
            \o LinkFrameworks(refs, k + 1)

RECURSIVE VendorFrameworks(_, _)
VendorFrameworks(refs, k) ==
    IF k > Len(refs) THEN << >>
    ELSE (IF Classify(refs[k]).list = "vendor_frameworks"
          THEN <<RelativizePath(Classify(refs[k]).entry)>> ELSE << >>)
            \o VendorFrameworks(refs, k + 1)

\* lines 110-116: the features of the call are appended to those of the
\* CLI options; without features of the call the options are left as they are.
IosFeatures(options_features, call_features) ==
    IF call_features.some
    THEN Some((IF options_features.some THEN options_features.val ELSE << >>)
                 \o call_features.val)
    ELSE options_features

NoRawConfig == [development_team |-> None(NoString), ios_features |-> None(<< >>)]
NoMetadata == [features |-> None(<< >>), frameworks |-> << >>,
               vendor_frameworks |-> << >>]

ConfigFresh ==
    /\ raw_config = NoRawConfig
    /\ metadata = NoMetadata
    /\ warning = "none"
    /\ exported = {}

InitGetConfig ==
    /\ env_team \in EnvReads
    /\ config_team \in {None(NoString)} \cup {Some(t) : t \in ConfigTeams}
    /\ team_query \in TeamQueries
    /\ config_frameworks
          \in {None(<< >>)} \cup {Some(l) : l \in SeqsUpTo(FrameworkRefs, MaxFrameworks)}
    /\ cli_features \in {None(<< >>), Some(<<"cli">>)}
    /\ features \in {None(<< >>), Some(<<"extra">>)}
    /\ ConfigFresh

ConfigIdle ==
    /\ env_team = Err(NoString, "NotPresent")
    /\ config_team = None(NoString)
    /\ team_query = ErrList("not queried")
    /\ config_frameworks = None(<< >>)
    /\ cli_features = None(<< >>)
    /\ features = None(<< >>)
    /\ ConfigFresh

CallGetConfig ==
    /\ op = "get_config" /\ pc = "get_config"
    /\ LET ios_features == IosFeatures(cli_features, features)
           refs == IF config_frameworks.some THEN config_frameworks.val ELSE << >>
       IN  /\ raw_config' =
                 [development_team |->
                      DevelopmentTeam(env_team, config_team, team_query),
                  ios_features |-> ios_features]
           /\ metadata' = [features |-> ios_features,
                           frameworks |-> LinkFrameworks(refs, 1),
                           vendor_frameworks |-> VendorFrameworks(refs, 1)]
    /\ warning' = TeamWarning(env_team, config_team, team_query)
    /\ exported' = {"TAURI_IOS_PROJECT_PATH", "TAURI_IOS_APP_NAME"}
    /\ pc' = "done"
    /\ UNCHANGED <<op, env_team, config_team, team_query, config_frameworks,
                   cli_features, features, resolverVars, signingVars,
                   plistVars>>

----------------------------------------------------------------------------
\* The calls

vars == <<op, pc, resolverVars, signingVars, plistVars, configVars>>

Init ==
    \/ /\ op = "device_prompt" /\ pc = "connected_device_prompt"
       /\ InitDevicePrompt /\ SigningIdle /\ PlistIdle /\ ConfigIdle
    \/ /\ op = "init_config" /\ pc = "init_config"
       /\ InitInitConfig /\ ResolverIdle /\ PlistIdle /\ ConfigIdle
    \/ /\ op = "merge_plist" /\ pc = "merge_plist"
       /\ InitMergePlist /\ ResolverIdle /\ SigningIdle /\ ConfigIdle
    \/ /\ op = "get_config" /\ pc = "get_config"
       /\ InitGetConfig /\ ResolverIdle /\ SigningIdle /\ PlistIdle

Next ==
    \/ CallConnectedDevicePrompt
    \/ CallSimulatorPrompt
    \/ StartDetached
    \/ CallInitConfig
    \/ CallMergePlist
    \/ CallGetConfig

Spec == Init /\ [][Next]_vars

----------------------------------------------------------------------------
\* Claims about the resolver

ScoreAt(names, k) == ScoreOf(best_match, names[k])
NoDeviceClears ==
    \A k \in 1..Len(device_list.val) :
        ~(ScoreAt(DeviceNames(device_list.val), k) > MIN_DEVICE_MATCH_SCORE)
SimulatorPathRan ==
    \E k \in 1..Len(log) : log[k] \in {"list_simulators", "prompt_simulator",
                                       "start_detached"}

\* The case of C1: connected_device_prompt has run on a non-empty
\* enumeration with a hint that no device matches above the threshold.
C1_Case ==
    /\ op = "device_prompt" /\ pc # "connected_device_prompt"
    /\ device_list.ok /\ Len(device_list.val) > 0
    /\ target.some
    /\ NoDeviceClears

\* C1 as stated: with a non-empty device enumeration and a hint that no
\* device matches above the threshold, device_prompt fails with the
\* no-matching-target error and never enumerates, selects or starts a
\* simulator.
C1_NoFallbackOnMatchFailure ==
    C1_Case =>
        /\ ~SimulatorPathRan
        /\ pc = "done" =>
              device_result = ErrCandidate("Could not find an iOS device matching")

\* C1 amended: in that case connected_device_prompt fails with the
\* no-matching-device error and no physical device is returned, but
\* device_prompt discards that error and continues with the simulator path:
\* it enumerates the simulators and the call's result is what the simulator
\* path yields (simulator_prompt's error, the start failure, or the simulator).
C1_MatchFailureFallsBack ==
    C1_Case =>
        /\ connected = ErrCandidate("Could not find an iOS device matching")
        /\ device_result.val.kind # "device"
        /\ pc # "done" => ~device_result.ok
        /\ pc = "done" =>
              /\ Len(log) >= 2 /\ log[2] = "list_simulators"
              /\ device_result =
                    IF ~simulator.ok THEN simulator
                    ELSE IF started THEN simulator
                    ELSE ErrCandidate("start_detached failed")

\* The match failure on the devices ended with a simulator as the target.
C1_Witness ==
    /\ C1_Case /\ pc = "done"
    /\ device_result.ok /\ device_result.val.kind = "simulator"

\* The candidate at index sel has the maximum score of the list.
HasMaxScore(names, sel) ==
    \A k \in 1..Len(names) : ScoreAt(names, k) <= ScoreAt(names, sel)
\* No candidate enumerated after (before) sel has the same score.
LastOfTies(names, sel) ==
    \A k \in 1..Len(names) : ScoreAt(names, k) = ScoreAt(names, sel) => k <= sel
FirstOfTies(names, sel) ==
    \A k \in 1..Len(names) : ScoreAt(names, k) = ScoreAt(names, sel) => k >= sel

DeviceMatched == op = "device_prompt" /\ target.some /\ connected.ok
SimulatorMatched == op = "device_prompt" /\ target.some /\ simulator.ok

\* C2 as stated: with a hint, connected_device_prompt and simulator_prompt
\* pick a candidate with the maximum score, and among several candidates
\* with that score the one enumerated last.
C2_TieGoesToLast ==
    /\ DeviceMatched =>
          /\ HasMaxScore(DeviceNames(device_list.val), connected.val.index)
          /\ LastOfTies(DeviceNames(device_list.val), connected.val.index)
    /\ SimulatorMatched =>
          /\ HasMaxScore(SimulatorNames(simulator_list.val), simulator.val.index)
          /\ LastOfTies(SimulatorNames(simulator_list.val), simulator.val.index)

\* C2 amended: with a hint, both pick a candidate with the maximum score,
\* and among several candidates with that score the one enumerated FIRST
\* (max_by_key returns the last maximum of the reversed iteration).
C2_TieGoesToFirst ==
    /\ DeviceMatched =>
          /\ HasMaxScore(DeviceNames(device_list.val), connected.val.index)
          /\ FirstOfTies(DeviceNames(device_list.val), connected.val.index)
    /\ SimulatorMatched =>
          /\ HasMaxScore(SimulatorNames(simulator_list.val), simulator.val.index)
          /\ FirstOfTies(SimulatorNames(simulator_list.val), simulator.val.index)

\* Two simulators with different names share the maximum score and the
\* first one enumerated was picked.
C2_Witness ==
    /\ SimulatorMatched /\ pc = "done"
    /\ Len(simulator_list.val) = 2
    /\ simulator_list.val[1].name # simulator_list.val[2].name
    /\ ScoreAt(SimulatorNames(simulator_list.val), 1)
          = ScoreAt(SimulatorNames(simulator_list.val), 2)
    /\ simulator.val.index = 1

----------------------------------------------------------------------------
\* Claims about init_config

InitConfigDone == op = "init_config" /\ pc = "done"

\* C3: init_config returns Manual if and only if both a keychain and a
\* provisioning profile are present; with one of them or neither it returns
\* Automatic.
C3_ManualIffBoth ==
    InitConfigDone =>
        /\ init_result.code_sign_style = "Manual"
              <=> (keychain.some /\ provisioning_profile.some)
        /\ init_result.code_sign_style = "Automatic"
              <=> ~(keychain.some /\ provisioning_profile.some)

\* A keychain alone gave Automatic.
C3_Witness ==
    /\ InitConfigDone
    /\ keychain.some /\ ~provisioning_profile.some
    /\ init_result.code_sign_style = "Automatic"

ProfileOnly == InitConfigDone /\ ~keychain.some /\ provisioning_profile.some

\* C4 as stated: with a provisioning profile but no keychain the result has
\* no identity, no team id and no provisioning UUID.
C4_ProfileAloneSetsNothing ==
    ProfileOnly =>
        /\ ~init_result.code_sign_identity.some
        /\ ~init_result.team_id.some
        /\ ~init_result.provisioning_profile_uuid.some

\* C4 amended: with a provisioning profile but no keychain the result has no
\* identity and no team id, and its provisioning UUID is the profile's UUID
\* whenever that UUID can be read: the UUID field does not depend on the
\* keychain.
C4_ProfileAloneSetsUuid ==
    ProfileOnly =>
        /\ ~init_result.code_sign_identity.some
        /\ ~init_result.team_id.some
        /\ init_result.provisioning_profile_uuid
              = ResultOk(provisioning_profile.val.uuid)

\* A profile alone, with a readable UUID, which the result carries.
C4_Witness ==
    /\ ProfileOnly
    /\ provisioning_profile.val.uuid.ok
    /\ init_result.provisioning_profile_uuid.some
    /\ init_result.code_sign_style = "Automatic"

BothPresent == InitConfigDone /\ keychain.some /\ provisioning_profile.some

\* C5 as stated: with both a keychain and a provisioning profile the result
\* is Manual with identity, team id and provisioning UUID all set.
C5_BothSetsAllFields ==
    BothPresent =>
        /\ init_result.code_sign_style = "Manual"
        /\ init_result.code_sign_identity.some
        /\ init_result.team_id.some
        /\ init_result.provisioning_profile_uuid.some

\* C5 amended: with both present the result is Manual and the identity is
\* the keychain's; the team id is set exactly when the keychain carries one
\* and the provisioning UUID exactly when the profile's UUID can be read.
C5_BothSetsAvailableFields ==
    BothPresent =>
        /\ init_result.code_sign_style = "Manual"
        /\ init_result.code_sign_identity = Some(keychain.val.signing_identity)
        /\ init_result.team_id = keychain.val.team_id
        /\ init_result.provisioning_profile_uuid
              = ResultOk(provisioning_profile.val.uuid)

\* Both present, the keychain without a team id and the profile's UUID
\* unreadable: Manual with only the identity set.
C5_Witness ==
    /\ BothPresent
    /\ ~keychain.val.team_id.some /\ ~provisioning_profile.val.uuid.ok
    /\ init_result.code_sign_style = "Manual"
    /\ init_result.code_sign_identity.some
    /\ ~init_result.team_id.some
    /\ ~init_result.provisioning_profile_uuid.some

----------------------------------------------------------------------------
\* Claims about merge_plist

MergeDone == op = "merge_plist" /\ pc = "done"

\* Source j loaded and sets key: an unreadable source or one that is not a
\* dictionary sets nothing.
Sets(j, key) ==
    src[j].loads /\ src[j].value.dict /\ src[j].value.at[key] # Absent
SomeSourceLoads == \E j \in 1..Len(src) : src[j].loads
LastSetter(key) ==
    CHOOSE j \in 1..Len(src) :
        Sets(j, key) /\ \A i \in 1..Len(src) : Sets(i, key) => i <= j
DestReadOrWritten ==
    \E k \in 1..Len(plist_log) : plist_log[k].ev \in {"read_dest", "write_dest"}

\* C6 as stated: after merge_plist succeeds, every key set by a loaded
\* source has, in the destination, the value of the last source that sets it.
C6_LastSourceWins ==
    (MergeDone /\ merge_result.ok) =>
        \A key \in Keys :
            (\E j \in 1..Len(src) : Sets(j, key)) =>
                dest_file.value.at[key] = src[LastSetter(key)].value.at[key]

\* C6 amended: after merge_plist succeeds on a destination whose document
\* is a dictionary, every key set by a loaded source has, in the destination,
\* the value of the last source that sets it.
C6_LastSourceWinsInDict ==
    (MergeDone /\ merge_result.ok /\ dest_before.value.dict) =>
        \A key \in Keys :
            (\E j \in 1..Len(src) : Sets(j, key)) =>
                dest_file.value.at[key] = src[LastSetter(key)].value.at[key]

\* Two sources set the same key to different values, the destination had
\* that key, and it ends with the second source's value.
C6_Witness ==
    /\ MergeDone /\ merge_result.ok /\ Len(src) = 2
    /\ \E key \in Keys :
          /\ Sets(1, key) /\ Sets(2, key)
          /\ src[1].value.at[key] # src[2].value.at[key]
          /\ dest_before.value.at[key] # Absent
          /\ dest_file.value.at[key] = src[2].value.at[key]

\* C7: when no source loads (an empty list, or every source unreadable) the
\* destination is neither read nor written, it stays as it was and the call
\* returns Ok, also when the destination is unreadable.
C7_NoSourceNoTouch ==
    (MergeDone /\ ~SomeSourceLoads) =>
        /\ merge_result.ok
        /\ ~DestReadOrWritten
        /\ dest_file = dest_before

\* Unreadable sources only, and an unreadable destination: Ok.
C7_Witness ==
    /\ MergeDone /\ Len(src) = 2 /\ ~SomeSourceLoads
    /\ ~dest_before.readable
    /\ merge_result.ok

\* C8: when a source loads and the destination cannot be loaded, the call
\* returns an error and the destination is not written.
C8_UnreadableDestIsError ==
    (MergeDone /\ SomeSourceLoads /\ ~dest_before.readable) =>
        /\ ~merge_result.ok
        /\ ~Writes(plist_log)
        /\ dest_file = dest_before

\* An unreadable source, then one that loads, on an unreadable destination.
C8_Witness ==
    /\ MergeDone /\ Len(src) = 2
    /\ ~src[1].loads /\ src[2].loads
    /\ ~dest_before.readable
    /\ merge_result = Err("unit", "destination unreadable")

RemoveAt(s, i) == [k \in 1..(Len(s) - 1) |-> IF k < i THEN s[k] ELSE s[k + 1]]

\* C9: an unreadable source at any position is skipped without error: the
\* result and the final destination are those of the same call on the list
\* without that source (with to_file_xml behaving the same).
C9_UnreadableSourceSkipped ==
    MergeDone =>
        \A i \in 1..Len(src) :
            ~src[i].loads =>
                LET without == MergePlist(RemoveAt(src, i), dest_before,
                                          write_outcome)
                IN  /\ merge_result = without.result
                    /\ dest_file = without.file

\* An unreadable source first, and the source after it was still merged.
C9_Witness ==
    /\ MergeDone /\ Len(src) = 2 /\ merge_result.ok
    /\ ~src[1].loads
    /\ \E key \in Keys :
          /\ Sets(2, key)
          /\ dest_before.value.at[key] # src[2].value.at[key]
          /\ dest_file.value.at[key] = src[2].value.at[key]

----------------------------------------------------------------------------
\* Claims about get_config

GetConfigDone == op = "get_config" /\ pc = "done"
\* The override is present when reading the variable yields a value.
EnvOverride == env_team.ok
SingleIdentity == team_query.ok /\ Len(team_query.val) = 1

\* C10: the development team is the environment override when present,
\* otherwise the project configuration's value when present, otherwise the
\* id of the single discovered identity when exactly one exists, otherwise
\* unset; with both an override and a project value it is the override.
C10_TeamPrecedence ==
    GetConfigDone =>
        /\ EnvOverride => raw_config.development_team = Some(env_team.val)
        /\ (~EnvOverride /\ config_team.some) =>
              raw_config.development_team = config_team
        /\ (~EnvOverride /\ ~config_team.some /\ SingleIdentity) =>
              raw_config.development_team = Some(team_query.val[1].id)
        /\ (~EnvOverride /\ ~config_team.some /\ ~SingleIdentity) =>
              ~raw_config.development_team.some

\* An override and a project value that differ, and one identity: the
\* override is the team.
C10_Witness ==
    /\ GetConfigDone
    /\ EnvOverride /\ config_team.some /\ SingleIdentity
    /\ env_team.val # config_team.val
    /\ raw_config.development_team = Some(env_team.val)

----------------------------------------------------------------------------
\* Claims about the fallback to the simulators

DevicePromptDone == op = "device_prompt" /\ pc = "done"
SimulatorsEnumerated == op = "device_prompt" /\ simulator_list.ok
NoDevices == op = "device_prompt" /\ device_list.ok /\ Len(device_list.val) = 0

\* The error of simulator_prompt that corresponds to one of
\* connected_device_prompt.
SimulatorErrorFor(e) ==
    CASE e = "Could not find an iOS device matching" ->
            "Could not find an iOS Simulator matching"
      [] e = "Failed to prompt for iOS device" ->
            "Failed to prompt for iOS Simulator device"
      [] e = "No connected iOS devices detected" ->
            "No available iOS Simulator detected"
      [] OTHER -> "none"

\* C11: with no device and a non-empty simulator enumeration, device_prompt
\* resolves among the simulators by the rules of the devices: on the names
\* of the simulators connected_device_prompt picks the candidate at the same
\* position (same threshold, same tie-break, same single-candidate rule,
\* same use of the prompt's answer) and fails the same way.
C11_SimulatorsResolveLikeDevices ==
    (NoDevices /\ SimulatorsEnumerated /\ Len(simulator_list.val) > 0) =>
        LET names == Ok(SimulatorNames(simulator_list.val))
            as_devices == ConnectedDevicePrompt(names, target, best_match,
                                                simulator_choice)
        IN  /\ simulator_choice.asked <=> PromptsFor(names, target)
            /\ simulator.ok <=> as_devices.ok
            /\ simulator.ok =>
                  /\ simulator.val.index = as_devices.val.index
                  /\ simulator.val.name = as_devices.val.name
            /\ ~simulator.ok => simulator.err = SimulatorErrorFor(as_devices.err)

\* No device, two simulators of which only the second scores above the
\* threshold, the first exactly the threshold: the second is the target.
C11_Witness ==
    /\ DevicePromptDone /\ NoDevices /\ SimulatorsEnumerated
    /\ target.some /\ Len(simulator_list.val) = 2
    /\ ScoreAt(SimulatorNames(simulator_list.val), 1) = MIN_DEVICE_MATCH_SCORE
    /\ ScoreAt(SimulatorNames(simulator_list.val), 2) > MIN_DEVICE_MATCH_SCORE
    /\ device_result.ok /\ device_result.val.kind = "simulator"
    /\ device_result.val.index = 2

BothEmpty == NoDevices /\ SimulatorsEnumerated /\ Len(simulator_list.val) = 0

\* C12: when both enumerations are empty device_prompt fails with the
\* no-simulator-available error, with or without a hint, and starts no
\* simulator.
C12_NothingAvailable ==
    BothEmpty =>
        /\ pc = "done"
        /\ device_result = ErrCandidate("No available iOS Simulator detected")
        /\ \A k \in 1..Len(log) : log[k] # "start_detached"
        /\ ~started

\* Both enumerations empty, with a hint.
C12_Witness ==
    /\ BothEmpty /\ target.some /\ pc = "done"
    /\ ~device_result.ok

NumberOf(event) == Cardinality({k \in 1..Len(log) : log[k] = event})
\* What lines 284-287 return once simulator_prompt has answered.
SimulatorPathResult ==
    IF ~simulator.ok THEN simulator
    ELSE IF started THEN simulator
    ELSE ErrCandidate("start_detached failed")

SimulatorChosen == op = "device_prompt" /\ simulator.ok

\* C13 as stated: a chosen simulator is started exactly when it is not
\* already running, the start comes before the return, and a failed start
\* makes the call return an error.
C13_StartsOnlyIfNotRunning ==
    (SimulatorChosen /\ pc = "done") =>
        /\ NumberOf("start_detached") = (IF simulator.val.running THEN 0 ELSE 1)
        /\ NumberOf("start_detached") = 1 =>
              /\ log[Len(log)] = "start_detached"
              /\ device_result = SimulatorPathResult
        /\ NumberOf("start_detached") = 0 => device_result = simulator

\* C13 amended: a chosen simulator is always started detached, exactly
\* once, whether or not it is already running; nothing is returned before
\* the start, and the call returns the simulator if the start succeeded and
\* an error if it failed.
C13_AlwaysStarts ==
    SimulatorChosen =>
        /\ pc # "done" =>
              /\ ~device_result.ok
              /\ NumberOf("start_detached") = 0
        /\ pc = "done" =>
              /\ NumberOf("start_detached") = 1
              /\ log[Len(log)] = "start_detached"
              /\ device_result = SimulatorPathResult

\* A simulator that was already running was started and returned.
C13_Witness ==
    /\ SimulatorChosen /\ pc = "done"
    /\ simulator.val.running
    /\ NumberOf("start_detached") = 1
    /\ started /\ device_result = simulator

\* The case of C14: several devices, no hint, and the prompt failed.
C14_Case ==
    /\ op = "device_prompt" /\ pc # "connected_device_prompt"
    /\ device_list.ok /\ Len(device_list.val) > 1
    /\ ~target.some
    /\ device_choice = PromptErr

\* C14 as stated: in that case device_prompt ends with the prompt failure:
\* it does not continue with the simulator path and returns no target.
C14_PromptFailureIsTerminal ==
    C14_Case =>
        /\ ~SimulatorPathRan
        /\ pc = "done" =>
              device_result = ErrCandidate("Failed to prompt for iOS device")

\* C14 amended: in that case connected_device_prompt fails with the prompt
\* failure and no physical device is returned, but device_prompt discards
\* that error and continues with the simulator path, whose outcome is the
\* call's result.
C14_PromptFailureFallsBack ==
    C14_Case =>
        /\ connected = ErrCandidate("Failed to prompt for iOS device")
        /\ device_result.val.kind # "device"
        /\ pc # "done" => ~device_result.ok
        /\ pc = "done" =>
              /\ NumberOf("list_simulators") = 1
              /\ device_result = SimulatorPathResult

\* The device prompt failed and the call still returned a simulator.
C14_Witness ==
    /\ C14_Case /\ pc = "done"
    /\ device_result.ok /\ device_result.val.kind = "simulator"

\* The case of C15: the hint is the exact name of a device of the list, and
\* that name scores at least as high as every candidate.
C15_Case ==
    /\ op = "device_prompt" /\ pc # "connected_device_prompt"
    /\ device_list.ok /\ target.some
    /\ \E k \in 1..Len(device_list.val) : device_list.val[k] = target.val
    /\ \A k \in 1..Len(device_list.val) :
          ScoreAt(device_list.val, k) <= ScoreOf(best_match, target.val)
ExactClears == ScoreOf(best_match, target.val) > MIN_DEVICE_MATCH_SCORE
OthersScoreLower ==
    \A k \in 1..Len(device_list.val) :
        device_list.val[k] # target.val =>
            ScoreAt(device_list.val, k) < ScoreOf(best_match, target.val)

\* C15 as stated: in that case device_prompt selects a device with the
\* hint's name, the latest enumerated one when several score the same.
C15_ExactNameSelected ==
    C15_Case =>
        /\ pc = "done"
        /\ device_result.ok /\ device_result.val.kind = "device"
        /\ device_result.val.name = target.val
        /\ LastOfTies(device_list.val, device_result.val.index)

\* C15 amended: in that case, and when the exact name scores above
\* MIN_DEVICE_MATCH_SCORE, device_prompt returns a device with the maximum
\* score, the first enumerated one when several score the same; it has the
\* hint's name whenever every device with another name scores strictly lower.
C15_BestScoreSelected ==
    (C15_Case /\ ExactClears) =>
        /\ pc = "done"
        /\ device_result.ok /\ device_result.val.kind = "device"
        /\ HasMaxScore(device_list.val, device_result.val.index)
        /\ FirstOfTies(device_list.val, device_result.val.index)
        /\ OthersScoreLower => device_result.val.name = target.val

\* The hint is the name of the second device, the first device has another
\* name and the same score: the first one is returned.
C15_Witness ==
    /\ C15_Case /\ ExactClears /\ pc = "done"
    /\ Len(device_list.val) = 2
    /\ device_list.val[2] = target.val /\ device_list.val[1] # target.val
    /\ device_result.ok /\ device_result.val.index = 1

\* The case of C18: the devices were enumerated and no hint was given.
C18_Case ==
    /\ op = "device_prompt" /\ pc # "connected_device_prompt"
    /\ device_list.ok /\ ~target.some

\* C18: without a hint, connected_device_prompt selects the only device
\* without prompting when one device is enumerated, and prompts exactly once
\* and selects the device at the returned index when several are.
C18_SingleOrPrompt ==
    C18_Case =>
        /\ Len(device_list.val) = 1 =>
              /\ NumberOf("prompt_device") = 0 /\ ~device_choice.asked
              /\ connected = Ok(DeviceAt(device_list.val, 1))
        /\ Len(device_list.val) > 1 =>
              /\ NumberOf("prompt_device") = 1 /\ device_choice.asked
              /\ device_choice.ok =>
                    /\ connected.ok
                    /\ connected.val.index = device_choice.index + 1
                    /\ connected.val.name
                          = device_list.val[device_choice.index + 1]

\* Two devices with different names, the prompt returned index 1: the second
\* device is the target.
C18_Witness ==
    /\ C18_Case /\ pc = "done"
    /\ Len(device_list.val) = 2
    /\ device_list.val[1] # device_list.val[2]
    /\ device_choice = PromptOk(1)
    /\ device_result = Ok(DeviceAt(device_list.val, 2))

\* C19: whenever device_prompt resolves a physical device, that device is
\* what the call returns at once: the simulators are not enumerated, no
\* simulator prompt is shown and no simulator is started.
C19_DeviceLeavesSimulatorsAlone ==
    (op = "device_prompt" /\ (connected.ok \/ device_result.val.kind = "device")) =>
        /\ pc = "done"
        /\ device_result = connected
        /\ ~SimulatorPathRan
        /\ simulator_list = ErrList("not enumerated")
        /\ simulator = ErrCandidate("not called")
        /\ ~started

\* A device matched by a hint was returned.
C19_Witness ==
    /\ DevicePromptDone /\ target.some
    /\ device_result.ok /\ device_result.val.kind = "device"
    /\ log = <<"list_devices">>

\* The case of C20: list_devices itself failed.
C20_Case ==
    /\ op = "device_prompt" /\ pc # "connected_device_prompt"
    /\ ~device_list.ok

\* C20: when the device enumeration fails, device_prompt does not return
\* that error: it continues with the simulator path, whose outcome is the
\* call's result.
C20_EnumerationFailureFallsBack ==
    C20_Case =>
        /\ connected = ErrCandidate("Failed to detect connected iOS devices")
        /\ device_result # connected
        /\ pc # "done" => pc \in {"simulator_prompt", "start_detached"}
        /\ pc = "done" =>
              /\ NumberOf("list_simulators") = 1
              /\ device_result = SimulatorPathResult

\* list_devices failed and the call returned a simulator.
C20_Witness ==
    /\ C20_Case /\ pc = "done"
    /\ device_result.ok /\ device_result.val.kind = "simulator"

----------------------------------------------------------------------------
\* Claims about the framework lists of get_config

ConfiguredRefs ==
    IF config_frameworks.some THEN config_frameworks.val ELSE << >>
\* No extension: Path::extension is absent or empty.
NoExtension(ref) == ExtOrEmpty(ref) = << >>
IsBundle(ref) == ExtOrEmpty(ref) = <<"framework">>
Linked(ref) == NoExtension(ref) \/ IsBundle(ref)
\* How many of the first k references are linked, and how many are vendored.
LinkedUpTo(k) == Cardinality({j \in 1..k : Linked(ConfiguredRefs[j])})
VendoredUpTo(k) == Cardinality({j \in 1..k : ~Linked(ConfiguredRefs[j])})

\* C16: every configured framework reference is in exactly one list, by its
\* extension: without extension it is in the link list unchanged, with the
\* extension "framework" its file stem is in the link list, with any other
\* extension its path relative to the project directory is in the vendor
\* list; each list keeps the order of the references.
C16_FrameworksClassified ==
    GetConfigDone =>
        LET n == Len(ConfiguredRefs)
        IN  /\ Len(metadata.frameworks) = LinkedUpTo(n)
            /\ Len(metadata.vendor_frameworks) = VendoredUpTo(n)
            /\ \A k \in 1..n :
                  LET ref == ConfiguredRefs[k]
                  IN  /\ NoExtension(ref) =>
                            metadata.frameworks[LinkedUpTo(k)] = ref
                      /\ IsBundle(ref) =>
                            metadata.frameworks[LinkedUpTo(k)] = FileStem(ref)
                      /\ ~Linked(ref) =>
                            metadata.vendor_frameworks[VendoredUpTo(k)]
                               = RelativizePath(ref)

\* "libs/Bar.framework" then "Foo": the link list is "Bar", "Foo".
C16_Witness ==
    /\ GetConfigDone
    /\ ConfiguredRefs = <<<<"libs", "/", "Bar", ".", "framework">>, <<"Foo">>>>
    /\ metadata.frameworks = <<<<"Bar">>, <<"Foo">>>>
    /\ metadata.vendor_frameworks = << >>

----------------------------------------------------------------------------
\* Claims about the file accesses of merge_plist

WritePositions == {k \in 1..Len(plist_log) : plist_log[k].ev = "write_dest"}
LoadedBefore(i, k) ==
    \E j \in 1..(k - 1) : plist_log[j] = Event("load_source", i)

\* C17: a call of merge_plist writes the destination at most once, and only
\* after every source of the list was processed; a call that returns an
\* error before that has written nothing.
C17_SingleWriteAtTheEnd ==
    MergeDone =>
        /\ Cardinality(WritePositions) <= 1
        /\ \A k \in WritePositions :
              /\ k = Len(plist_log)
              /\ \A i \in 1..Len(src) : LoadedBefore(i, k)
        /\ (~merge_result.ok /\ WritePositions = {}) => dest_file = dest_before

\* Two sources that load, merged, then the single write.
C17_Witness ==
    /\ MergeDone /\ merge_result.ok
    /\ Len(src) = 2 /\ src[1].loads /\ src[2].loads
    /\ Cardinality(WritePositions) = 1
    /\ plist_log[Len(plist_log)].ev = "write_dest"

====
